---- MODULE Spec2Model ----
(***************************************************************************)
(* A model of fetch_users.py: the profile scraper's main loop              *)
(* (fetch_user_profile, download_avatar, main) and the extraction          *)
(* function parse_user_profile.                                            *)
(*                                                                         *)
(* Python strings are sequences of one-character strings, so that strip,   *)
(* lower, replace, startswith and the "in" substring test are computed.    *)
(* A dict is a function; the record user_data is a function on its field   *)
(* names.  A parsed page (BeautifulSoup's tree) is a record that lists,    *)
(* per tag, the elements in document order; `body` is the sequence of the  *)
(* dl, table and panel div elements in document order.  An optional        *)
(* attribute is a sequence of length 0 (absent) or 1 (present).            *)
(***************************************************************************)
EXTENDS Integers, Sequences, FiniteSets, TLC

VARIABLES
    JIRA_SERVER,   \* the tracker base URL (environment, line 13)
    user_ids,      \* the list read from USER_IDS_FILE
    i,             \* main's loop counter (enumerate(user_ids, 1))
    pc,            \* position in main / in the parse harness
    response,      \* the response of the current session.get
    user_data,     \* main's user_data: None or a record
    all_users,     \* main's all_users
    output,        \* what json.dump wrote: None or a list
    attempts,      \* history: one entry per session.get of a profile page
    downloads      \* history: one entry per session.get of an avatar

vars == <<JIRA_SERVER, user_ids, i, pc, response, user_data, all_users,
          output, attempts, downloads>>

----------------------------------------------------------------------------
(* Bounds *)

MaxUsers == 2
MaxBlocks == 2

----------------------------------------------------------------------------
(* Python values *)

None == [none |-> TRUE]

EmptyDict == [k \in {} |-> <<>>]

DictSet(d, k, v) == (k :> v) @@ d

Range(s) == {s[k] : k \in 1 .. Len(s)}

Min(a, b) == IF a <= b THEN a ELSE b

----------------------------------------------------------------------------
(* str methods *)

UpperLetters == <<"A","B","C","D","E","F","G","H","I","J","K","L","M",
                  "N","O","P","Q","R","S","T","U","V","W","X","Y","Z">>

LowerLetters == <<"a","b","c","d","e","f","g","h","i","j","k","l","m",
                  "n","o","p","q","r","s","t","u","v","w","x","y","z">>

LowerChar(c) ==
    IF \E k \in 1 .. Len(UpperLetters) : UpperLetters[k] = c
    THEN LowerLetters[CHOOSE k \in 1 .. Len(UpperLetters) : UpperLetters[k] = c]
    ELSE c

Lower(s) == [k \in 1 .. Len(s) |-> LowerChar(s[k])]

IsSpace(c) == c \in {" ", "\n", "\t"}

RECURSIVE LStrip(_)
LStrip(s) == IF s # <<>> /\ IsSpace(Head(s)) THEN LStrip(Tail(s)) ELSE s

RECURSIVE RStrip(_)
RStrip(s) ==
    IF s # <<>> /\ IsSpace(s[Len(s)]) THEN RStrip(SubSeq(s, 1, Len(s) - 1)) ELSE s

Strip(s) == RStrip(LStrip(s))

RECURSIVE RStripChar(_, _)
RStripChar(s, c) ==
    IF s # <<>> /\ s[Len(s)] = c THEN RStripChar(SubSeq(s, 1, Len(s) - 1), c) ELSE s

StartsWith(s, p) == Len(s) >= Len(p) /\ SubSeq(s, 1, Len(p)) = p

Contains(s, sub) ==
    \E k \in 1 .. (Len(s) - Len(sub) + 1) : SubSeq(s, k, k + Len(sub) - 1) = sub

RECURSIVE ReplaceAll(_, _, _)
ReplaceAll(s, old, new) ==
    IF s = <<>> THEN <<>>
    ELSE IF old # <<>> /\ StartsWith(s, old)
         THEN new \o ReplaceAll(SubSeq(s, Len(old) + 1, Len(s)), old, new)
         ELSE <<Head(s)>> \o ReplaceAll(Tail(s), old, new)

RECURSIVE Join(_, _)
Join(parts, sep) ==
    IF parts = <<>> THEN <<>>
    ELSE IF Len(parts) = 1 THEN parts[1]
    ELSE parts[1] \o sep \o Join(Tail(parts), sep)

RECURSIVE Split(_, _)
Split(s, c) ==
    IF \E k \in 1 .. Len(s) : s[k] = c
    THEN LET k == CHOOSE j \in 1 .. Len(s) :
                      s[j] = c /\ \A m \in 1 .. (j - 1) : s[m] # c
         IN  <<SubSeq(s, 1, k - 1)>> \o Split(SubSeq(s, k + 1, Len(s)), c)
    ELSE <<s>>

Digits == <<"0","1","2","3","4","5","6","7","8","9">>

RECURSIVE IntToStr(_)
IntToStr(n) ==
    IF n < 10 THEN <<Digits[n + 1]>>
    ELSE IntToStr(n \div 10) \o <<Digits[(n % 10) + 1]>>

----------------------------------------------------------------------------
(* String literals of the source *)

JIRAUSER_PREFIX == <<"J", "I", "R", "A", "U", "S", "E", "R">>
VIEW_PROFILE_PATH == <<"/", "s", "e", "c", "u", "r", "e", "/", "V", "i", "e", "w", "P", "r", "o", "f", "i", "l", "e", ".", "j", "s", "p", "a", "?">>
PARAM_ID == <<"i", "d">>
PARAM_NAME == <<"n", "a", "m", "e">>
LOGIN_WORD == <<"l", "o", "g", "i", "n">>
LOGIN_TEXT == <<"L", "o", "g", " ", "i", "n", " ", "t", "o", " ", "J", "i", "r", "a">>
MAILTO == <<"m", "a", "i", "l", "t", "o", ":">>
PROFILE_DETAILS == <<"p", "r", "o", "f", "i", "l", "e", "_", "d", "e", "t", "a", "i", "l", "s">>
TABLE_PREFIX == <<"t", "a", "b", "l", "e", "_">>
PAGE_TITLE_CLASS == <<"p", "a", "g", "e", "-", "t", "i", "t", "l", "e">>
USER_LOGO_CLASS == <<"u", "s", "e", "r", "L", "o", "g", "o">>
AVATAR_WORD == <<"A", "v", "a", "t", "a", "r">>
USER_HOVER_CLASS == <<"u", "s", "e", "r", "-", "h", "o", "v", "e", "r">>
PANEL_ID == <<"u", "s", "e", "r", "-", "p", "r", "o", "f", "i", "l", "e", "-", "p", "a", "n", "e", "l">>
PANEL_CLASS == <<"p", "r", "o", "f", "i", "l", "e", "-", "p", "a", "n", "e", "l">>
HTTPS_COLON == <<"h", "t", "t", "p", "s", ":">>
EXT_PNG == <<".", "p", "n", "g">>
EXT_JPG == <<".", "j", "p", "g">>
EXT_JPEG == <<".", "j", "p", "e", "g">>
EXT_GIF == <<".", "g", "i", "f">>

\* The list of line 135.
COMMON_FIELDS ==
    {  <<"u", "s", "e", "r", "n", "a", "m", "e">>,
       <<"f", "u", "l", "l", " ", "n", "a", "m", "e">>,
       <<"e", "m", "a", "i", "l">>,
       <<"g", "r", "o", "u", "p", "s">>,
       <<"l", "o", "g", "i", "n", " ", "c", "o", "u", "n", "t">>,
       <<"l", "a", "s", "t", " ", "l", "o", "g", "i", "n">>  }

----------------------------------------------------------------------------
(* urllib.parse.urljoin, as called at line 108 *)

URL_DELIMS == {"/", "?", "#"}

\* The index of the first character of s that is in cs, or Len(s) + 1.
FirstOf(s, cs) ==
    IF \E k \in 1 .. Len(s) : s[k] \in cs
    THEN CHOOSE k \in 1 .. Len(s) : s[k] \in cs /\ \A m \in 1 .. (k - 1) : s[m] \notin cs
    ELSE Len(s) + 1

\* urlparse, in stages: the scheme ends at the first ":" when that comes
\* before any "/", "?" or "#"; 0 when there is no scheme.
SchemeEnd(u) ==
    LET c == FirstOf(u, {":"})
    IN  IF c > 1 /\ c <= Len(u) /\ FirstOf(u, URL_DELIMS) > c THEN c ELSE 0

\* r is what follows the netloc: the path, then the query and fragment.
UrlParts(scheme, netloc, r) ==
    LET q == FirstOf(r, {"?", "#"})
    IN  [scheme |-> scheme, netloc |-> netloc,
         path |-> SubSeq(r, 1, q - 1), rest |-> SubSeq(r, q, Len(r))]

\* r is what follows the scheme; a netloc is there when r starts with "//".
UrlAfterScheme(scheme, r) ==
    LET has == StartsWith(r, <<"/", "/">>)
        t == IF has THEN SubSeq(r, 3, Len(r)) ELSE r
        n == IF has THEN FirstOf(t, URL_DELIMS) - 1 ELSE 0
    IN  UrlParts(scheme, SubSeq(t, 1, n), SubSeq(t, n + 1, Len(t)))

UrlSplitAt(u, c) ==
    UrlAfterScheme(IF c = 0 THEN <<>> ELSE SubSeq(u, 1, c - 1), SubSeq(u, c + 1, Len(u)))

urlparse(u) == UrlSplitAt(u, SchemeEnd(u))

urlunparse(scheme, netloc, path, rest) ==
    scheme \o <<":", "/", "/">> \o netloc \o path \o rest

\* The loop over segments: ".." pops (ignored when nothing is left), "." is
\* skipped, anything else is appended.
RECURSIVE ResolveSegments(_, _)
ResolveSegments(segments, resolved) ==
    IF segments = <<>> THEN resolved
    ELSE LET seg == Head(segments)
         IN  IF seg = <<".", ".">>
             THEN ResolveSegments(Tail(segments),
                      IF resolved = <<>> THEN resolved
                      ELSE SubSeq(resolved, 1, Len(resolved) - 1))
             ELSE IF seg = <<".">>
             THEN ResolveSegments(Tail(segments), resolved)
             ELSE ResolveSegments(Tail(segments), Append(resolved, seg))

\* base_parts without its last item when that is not a directory.
BaseDir(base_parts) ==
    IF base_parts[Len(base_parts)] # <<>>
    THEN SubSeq(base_parts, 1, Len(base_parts) - 1) ELSE base_parts

UrlSegments(bpath, path) ==
    IF Head(path) = "/" THEN Split(path, "/")
    ELSE BaseDir(Split(bpath, "/")) \o Split(path, "/")

\* A trailing "." or ".." leaves a trailing "/".
WithTrailing(segments, resolved) ==
    IF segments[Len(segments)] \in {<<".">>, <<".", ".">>}
    THEN Append(resolved, <<>>) ELSE resolved

PathOrRoot(joined) == IF joined = <<>> THEN <<"/">> ELSE joined

JoinResolved(segments) ==
    PathOrRoot(Join(WithTrailing(segments, ResolveSegments(segments, <<>>)), <<"/">>))

\* urljoin once both URLs are parsed; b and u are the parts of base and url.
UrlJoinParsed(url, b, u) ==
    LET scheme == IF u.scheme = <<>> THEN b.scheme ELSE u.scheme
    IN  IF scheme # b.scheme THEN url
        ELSE IF u.netloc # <<>> THEN urlunparse(scheme, u.netloc, u.path, u.rest)
        ELSE IF u.path = <<>>
        THEN urlunparse(scheme, b.netloc, b.path,
                        IF u.rest = <<>> THEN b.rest ELSE u.rest)
        ELSE urlunparse(scheme, b.netloc, JoinResolved(UrlSegments(b.path, u.path)),
                        u.rest)

urljoin(base, url) ==
    IF base = <<>> THEN url
    ELSE IF url = <<>> THEN base
    ELSE UrlJoinParsed(url, urlparse(base), urlparse(url))

----------------------------------------------------------------------------
(* parse_user_profile *)

\* soup.find: matches is the set of indices of the elements that match;
\* the first of them, or 0.
FindFirst(matches) ==
    IF matches = {} THEN 0 ELSE CHOOSE k \in matches : \A m \in matches : k <= m

\* class_='c': some class token of the element is c.
HasClass(e, c) == \E k \in 1 .. Len(e.class) : e.class[k] = c

\* Lines 91-93: the h1 with class page-title, else the first h1; 0 if none.
FindProfileHeading(doc) ==
    LET k == FindFirst({j \in 1 .. Len(doc.h1) : HasClass(doc.h1[j], PAGE_TITLE_CLASS)})
    IN  IF k # 0 THEN k ELSE FindFirst(1 .. Len(doc.h1))

\* FindAvatarImg with a fallback that takes any img that has an alt text.
FindAvatarImgAnyAlt(doc) ==
    LET k == FindFirst({j \in 1 .. Len(doc.img) : HasClass(doc.img[j], USER_LOGO_CLASS)})
    IN  IF k # 0 THEN k
        ELSE FindFirst({j \in 1 .. Len(doc.img) :
                          doc.img[j].alt # <<>> /\ doc.img[j].alt[1] # <<>>})

\* Lines 99-101: the img with class userLogo, else the first img whose alt
\* is non-empty and contains "Avatar"; 0 if none.
FindAvatarImg(doc) ==
    LET k == FindFirst({j \in 1 .. Len(doc.img) : HasClass(doc.img[j], USER_LOGO_CLASS)})
    IN  IF k # 0 THEN k
        ELSE FindFirst({j \in 1 .. Len(doc.img) :
                          /\ doc.img[j].alt # <<>>
                          /\ doc.img[j].alt[1] # <<>>
                          /\ Contains(doc.img[j].alt[1], AVATAR_WORD)})

\* NormalizeAvatarUrl with "http:" for a protocol-relative reference.
NormalizeAvatarUrlHttp(avatar_url) ==
    IF StartsWith(avatar_url, <<"/", "/">>) THEN <<"h", "t", "t", "p", ":">> \o avatar_url
    ELSE IF StartsWith(avatar_url, <<"/">>) THEN urljoin(JIRA_SERVER, avatar_url)
    ELSE avatar_url

\* Lines 105-108.
NormalizeAvatarUrl(avatar_url) ==
    IF StartsWith(avatar_url, <<"/", "/">>) THEN HTTPS_COLON \o avatar_url
    ELSE IF StartsWith(avatar_url, <<"/">>) THEN urljoin(JIRA_SERVER, avatar_url)
    ELSE avatar_url

\* The src of img element a, when there is one and it is not empty.
AvatarSrc(doc, a) ==
    IF a # 0 /\ doc.img[a].src # <<>> /\ doc.img[a].src[1] # <<>>
    THEN doc.img[a].src ELSE <<>>

\* Lines 103-109.
SetAvatarUrl(ud, src) ==
    IF src # <<>> THEN DictSet(ud, "avatar_url", NormalizeAvatarUrl(src[1])) ELSE ud

\* Line 112.
FindMailto(doc) ==
    FindFirst({j \in 1 .. Len(doc.a) :
                 doc.a[j].href # <<>> /\ StartsWith(doc.a[j].href[1], MAILTO)})

\* Line 114.
SetEmail(ud, doc, m) ==
    IF m # 0 THEN DictSet(ud, "email", ReplaceAll(doc.a[m].href[1], MAILTO, <<>>))
    ELSE ud

\* Line 117.
FindUserHover(doc) ==
    FindFirst({j \in 1 .. Len(doc.span) : HasClass(doc.span[j], USER_HOVER_CLASS)})

\* Line 119.
SetUsername(ud, doc, u) ==
    IF u = 0 THEN ud
    ELSE DictSet(ud, "username",
             IF doc.span[u].data_username # <<>> /\ doc.span[u].data_username[1] # <<>>
             THEN doc.span[u].data_username[1]
             ELSE Strip(doc.span[u].text))

\* Lines 86-88.
SetPageTitle(ud, doc) ==
    IF doc.title # <<>> THEN DictSet(ud, "page_title", Strip(doc.title[1])) ELSE ud

\* Lines 95-96.
SetFullName(ud, doc, h) ==
    IF h # 0 THEN DictSet(ud, "full_name", Strip(doc.h1[h].text)) ELSE ud

\* Lines 86-119: the scalar fields added to user_data.
ExtractFields(doc, ud) ==
    SetUsername(
        SetEmail(
            SetAvatarUrl(
                SetFullName(SetPageTitle(ud, doc), doc, FindProfileHeading(doc)),
                AvatarSrc(doc, FindAvatarImg(doc))),
            doc, FindMailto(doc)),
        doc, FindUserHover(doc))

\* soup.find_all(tag): the elements of body with that tag, in document order.
FindAll(doc, tag) == SelectSeq(doc.body, LAMBDA e : e.tag = tag)

\* Line 130.
DlKey(dt) == RStripChar(Strip(dt), ":")

\* IsCommonField comparing after the spaces are mapped to underscores.
IsCommonFieldUnderscored(key) ==
    ReplaceAll(Lower(key), <<" ">>, <<"_">>)
        \in {ReplaceAll(f, <<" ">>, <<"_">>) : f \in COMMON_FIELDS}

\* Line 135.
IsCommonField(key) == Lower(key) \in COMMON_FIELDS

\* Line 136.
DetailsKey(key) == ReplaceAll(Lower(key), <<" ">>, <<"_">>)

\* Line 136: user_data['details'] after the pair (key, value).
DetailsAfter(details, key, value) ==
    IF IsCommonField(key) THEN DictSet(details, DetailsKey(key), value) ELSE details

\* ZipPairs pairing to the longer length (itertools.zip_longest), a missing
\* term or description read as empty text.
RECURSIVE ZipPairsLongest(_, _, _, _)
ZipPairsLongest(dts, dds, k, acc) ==
    IF k > Len(dts) /\ k > Len(dds) THEN acc
    ELSE LET key == IF k <= Len(dts) THEN DlKey(dts[k]) ELSE <<>>
             value == IF k <= Len(dds) THEN Strip(dds[k]) ELSE <<>>
         IN  ZipPairsLongest(dts, dds, k + 1,
                 [section_data |-> DictSet(acc.section_data, key, value),
                  details |-> DetailsAfter(acc.details, key, value)])

\* Lines 129-136: the loop over zip(dt_elements, dd_elements), from pair k on;
\* acc is [section_data, details].
RECURSIVE ZipPairs(_, _, _, _)
ZipPairs(dts, dds, k, acc) ==
    IF k > Len(dts) \/ k > Len(dds) THEN acc
    ELSE LET key == DlKey(dts[k])
             value == Strip(dds[k])
         IN  ZipPairs(dts, dds, k + 1,
                 [section_data |-> DictSet(acc.section_data, key, value),
                  details |-> DetailsAfter(acc.details, key, value)])

\* DlPass without the test of line 138: an empty mapping is stored too.
RECURSIVE DlPassNoGuard(_, _)
DlPassNoGuard(dls, ud) ==
    IF dls = <<>> THEN ud
    ELSE LET r == ZipPairs(Head(dls).dt, Head(dls).dd, 1,
                      [section_data |-> EmptyDict, details |-> ud.details])
         IN  DlPassNoGuard(Tail(dls),
                 [ud EXCEPT !.details = r.details,
                            !.sections = DictSet(@, PROFILE_DETAILS,
                                [kind |-> "dict", val |-> r.section_data])])

\* Lines 124-139: the loop over dl_elements; ud is user_data.
RECURSIVE DlPass(_, _)
DlPass(dls, ud) ==
    IF dls = <<>> THEN ud
    ELSE LET r == ZipPairs(Head(dls).dt, Head(dls).dd, 1,
                      [section_data |-> EmptyDict, details |-> ud.details])
             ud1 == [ud EXCEPT !.details = r.details]
             ud2 == IF DOMAIN r.section_data # {}
                    THEN [ud1 EXCEPT !.sections =
                             DictSet(@, PROFILE_DETAILS,
                                     [kind |-> "dict", val |-> r.section_data])]
                    ELSE ud1
         IN  DlPass(Tail(dls), ud2)

\* Lines 147-151: the rows of a table that have cells, cells stripped.
TableData(table) ==
    LET rows == SelectSeq(table.tr, LAMBDA cells : cells # <<>>)
    IN  [r \in 1 .. Len(rows) |-> [c \in 1 .. Len(rows[r]) |-> Strip(rows[r][c])]]

\* TableKey counting the tables from 1.
TableKeyFromOne(n) == TABLE_PREFIX \o IntToStr(n + 1)

\* Line 154: f'table_{i}'.
TableKey(n) == TABLE_PREFIX \o IntToStr(n)

\* Lines 143-154: the loop over enumerate(tables), from table k (1-based) on.
RECURSIVE TablePass(_, _, _)
TablePass(tables, k, ud) ==
    IF k > Len(tables) THEN ud
    ELSE LET table_data == TableData(tables[k])
         IN  TablePass(tables, k + 1,
                 IF table_data # <<>>
                 THEN [ud EXCEPT !.sections =
                          DictSet(@, TableKey(k - 1),
                                  [kind |-> "list", val |-> table_data])]
                 ELSE ud)

\* Lines 158-160: the div with id user-profile-panel, else the first div
\* with class profile-panel; an index into FindAll(doc, "div"), 0 if none.
FindProfilePanel(doc) ==
    LET divs == FindAll(doc, "div")
        k == FindFirst({j \in 1 .. Len(divs) : divs[j].id = <<PANEL_ID>>})
    IN  IF k # 0 THEN k
        ELSE FindFirst({j \in 1 .. Len(divs) : HasClass(divs[j], PANEL_CLASS)})

\* Lines 165-168: the loop over subsections; sub.class is the optional class
\* attribute (class_=True keeps the elements that have one).
RECURSIVE SubsectionPass(_, _)
SubsectionPass(subs, ud) ==
    IF subs = <<>> THEN ud
    ELSE LET sub == Head(subs)
             class_name == IF sub.class = <<>> THEN <<>> ELSE Join(sub.class[1], <<" ">>)
         IN  SubsectionPass(Tail(subs),
                 IF sub.class # <<>> /\ class_name # <<>> /\ Strip(sub.text) # <<>>
                 THEN [ud EXCEPT !.sections =
                          DictSet(@, class_name,
                                  [kind |-> "str", val |-> Strip(sub.text)])]
                 ELSE ud)

\* Lines 158-168.
PanelPass(doc, ud) ==
    LET p == FindProfilePanel(doc)
    IN  IF p # 0 THEN SubsectionPass(FindAll(doc, "div")[p].children, ud) ELSE ud

\* Lines 78-83.
NewUserData(user_id, profile_url) ==
    [id |-> user_id, profile_url |-> profile_url,
     details |-> EmptyDict, sections |-> EmptyDict]

\* parse_user_profile with the sub-panel pass run before the other two.
ParsePanelsFirst(html_content, user_id, profile_url) ==
    TablePass(FindAll(html_content, "table"), 1,
        DlPass(FindAll(html_content, "dl"),
            PanelPass(html_content,
                ExtractFields(html_content, NewUserData(user_id, profile_url)))))

\* Lines 74-170.
parse_user_profile(html_content, user_id, profile_url) ==
    PanelPass(html_content,
        TablePass(FindAll(html_content, "table"), 1,
            DlPass(FindAll(html_content, "dl"),
                ExtractFields(html_content, NewUserData(user_id, profile_url)))))

----------------------------------------------------------------------------
(* fetch_user_profile, download_avatar *)

\* Lines 55-56.
ProfileUrl(user_id) ==
    JIRA_SERVER \o VIEW_PROFILE_PATH
        \o (IF StartsWith(user_id, JIRAUSER_PREFIX) THEN PARAM_ID ELSE PARAM_NAME)
        \o <<"=">> \o user_id

\* Line 63.
LooksLikeLogin(resp) ==
    Contains(Lower(resp.url), LOGIN_WORD) \/ Contains(resp.text, LOGIN_TEXT)

\* Lines 59-71.  resp.raises: session.get or raise_for_status raised a
\* RequestException.
fetch_user_profile(resp, user_id) ==
    IF resp.raises THEN None
    ELSE IF LooksLikeLogin(resp) THEN None
    ELSE parse_user_profile(resp.doc, user_id, ProfileUrl(user_id))

\* Lines 180-186.
AvatarFilename(user_id, avatar_url) ==
    user_id \o (IF Contains(avatar_url, EXT_JPG) \/ Contains(avatar_url, EXT_JPEG)
                THEN EXT_JPG
                ELSE IF Contains(avatar_url, EXT_GIF) THEN EXT_GIF
                ELSE EXT_PNG)

\* download_avatar returning the filename whether or not the image was saved.
download_avatar_always(user_id, avatar_url, saved) ==
    <<AvatarFilename(user_id, avatar_url)>>

\* Lines 173-201.  saved: the get, raise_for_status and the file write all
\* succeeded.  The result is optional: <<>> is None, <<f>> the filename f.
download_avatar(user_id, avatar_url, saved) ==
    IF avatar_url = <<>> THEN <<>>
    ELSE IF saved THEN <<AvatarFilename(user_id, avatar_url)>>
    ELSE <<>>

\* `if user_data:` at line 236.
Truthy(ud) == ud # None /\ DOMAIN ud # {}

----------------------------------------------------------------------------
(* Inputs: base URLs, user ids, pages *)

Servers == { <<"h","t","t","p","s",":","/","/","h">>,
             <<"h","t","t","p","s",":","/","/","h","/","j">> }

\* Stripped non-empty lines of the ids file (line 216).
UserIds == { <<"b","o","b">>,
             <<"J","I","R","A","U","S","E","R","1">>,
             <<"m","l","o","g","i","n">> }

RECURSIVE SeqsUpTo(_, _)
SeqsUpTo(S, n) ==
    IF n = 0 THEN {<<>>}
    ELSE LET shorter == SeqsUpTo(S, n - 1)
         IN  shorter \cup {Append(q, x) : q \in shorter, x \in S}

NoHead == [title |-> <<>>, h1 |-> <<>>, img |-> <<>>, a |-> <<>>, span |-> <<>>]

\* Elements of the five tags, none of them a recognized marker.
NoMarkerHead ==
    [title |-> <<>>, h1 |-> <<>>,
     img |-> << [class |-> << <<"k">> >>, alt |-> << <<"x">> >>,
                 src |-> << <<"/","n">> >>] >>,
     a |-> << [href |-> <<>>], [href |-> << <<"h",":","e">> >>] >>,
     span |-> << [class |-> << <<"z">> >>, data_username |-> << <<"q">> >>,
                  text |-> <<"w">>] >>]

\* Every marker, each after an element its finder must pass over.
FullHead ==
    [title |-> << <<" ","T","\n">>, <<"S">> >>,
     h1 |-> << [class |-> <<>>, text |-> <<"M">>],
               [class |-> << <<"k">>, PAGE_TITLE_CLASS >>, text |-> <<" ","N"," ">>] >>,
     img |-> << [class |-> <<>>, alt |-> <<AVATAR_WORD>>, src |-> << <<"/","x">> >>],
                [class |-> <<USER_LOGO_CLASS>>, alt |-> <<>>,
                 src |-> << <<"/","/","c","/","b",".","j","p","g">> >>] >>,
     a |-> << [href |-> << <<"h",":","e">> >>],
              [href |-> << MAILTO \o <<"e","@","f">> >>] >>,
     span |-> << [class |-> <<USER_HOVER_CLASS>>, data_username |-> << <<"u">> >>,
                  text |-> <<"v">>] >>]

\* The fallbacks: a plain h1, an img found by its alt text, a user-hover
\* span without data-username.
FallbackHead ==
    [title |-> <<>>,
     h1 |-> << [class |-> << <<"k">> >>, text |-> <<"M","\n">>] >>,
     img |-> << [class |-> <<>>, alt |-> << <<"a","v">> >>, src |-> << <<"/","x">> >>],
                [class |-> <<>>, alt |-> << <<"M","y"," ">> \o AVATAR_WORD >>,
                 src |-> << <<"/","a","/","b",".","p","n","g">> >>] >>,
     a |-> <<>>,
     span |-> << [class |-> << <<"z">>, USER_HOVER_CLASS >>, data_username |-> <<>>,
                  text |-> <<" ","v"," ">>] >>]

LogoHead(src) ==
    [title |-> <<>>, h1 |-> <<>>,
     img |-> << [class |-> <<USER_LOGO_CLASS>>, alt |-> <<>>, src |-> src],
                [class |-> <<>>, alt |-> <<AVATAR_WORD>>,
                 src |-> << <<"/","y">> >>] >>,
     a |-> <<>>, span |-> <<>>]

Heads ==
    { NoHead, NoMarkerHead, FullHead, FallbackHead,
      LogoHead(<< <<"h","t","t","p",":","/","/","c","/","d",".","g","i","f">> >>),
      LogoHead(<< <<"a","/","b">> >>),
      LogoHead(<< <<"/","a","/",".",".","/","b">> >>),
      LogoHead(<< <<" ","/","a">> >>),
      LogoHead(<< <<>> >>),
      LogoHead(<<>>) }

Dl(dt, dd) == [tag |-> "dl", dt |-> dt, dd |-> dd]

Table(tr) == [tag |-> "table", tr |-> tr]

Div(id, class, children) ==
    [tag |-> "div", id |-> id, class |-> class, children |-> children]

Sub(class, text) == [class |-> class, text |-> text]

K_EMAIL == <<"E","m","a","i","l">>
K_FULL_NAME == <<"F","u","l","l"," ","N","a","m","e">>
K_FULL_UNDERSCORE == <<"f","u","l","l","_","n","a","m","e">>
K_TIME == <<"T","i","m","e">>
K_GROUPS == <<"G","r","o","u","p","s">>

Blocks ==
    { \* paired: a recognized key and an unrecognized one
      Dl(<< <<" ">> \o K_EMAIL \o <<":"," ">>, K_TIME >>, << <<" ","e"," ">>, <<"z">> >>),
      \* paired: a spaced key, its underscore spelling, one key in two
      \* spellings, an unrecognized key
      Dl(<< K_FULL_NAME, K_FULL_UNDERSCORE, K_EMAIL, <<"E","M","A","I","L",":",":">>,
            K_TIME >>,
         << <<"n">>, <<"m">>, <<"f">>, <<"g">>, <<"z">> >>),
      \* more terms than descriptions
      Dl(<< K_GROUPS, K_EMAIL, K_TIME >>, << <<"a">> >>),
      \* more descriptions than terms
      Dl(<< K_TIME >>, << <<"t">>, <<"y">> >>),
      \* no pair at all
      Dl(<< K_EMAIL >>, <<>>),
      \* a row without cells between two rows
      Table(<< << <<" ","a">>, <<"b">> >>, <<>>, << <<"c">> >> >>),
      Table(<< << <<"h">> >> >>),
      \* no row with cells
      Table(<< <<>> >>),
      Table(<<>>),
      Div(<<PANEL_ID>>, <<>>,
          << Sub(<< <<PROFILE_DETAILS>> >>, <<"p">>),
             Sub(<< <<TABLE_PREFIX \o <<"0">> >> >>, <<" ","q"," ">>) >>),
      Div(<<>>, << <<"k">>, PANEL_CLASS >>,
          << Sub(<< << <<"x">>, <<"y">> >> >>, <<"r">>),
             Sub(<< << <<"x">>, <<"y">> >> >>, <<"s">>),
             Sub(<< << <<"e">> >> >>, <<" ">>),
             Sub(<< <<>> >>, <<"o">>),
             Sub(<<>>, <<"n">>) >>),
      \* a div that is no profile panel
      Div(<< <<"o">> >>, << <<"k">> >>, << Sub(<< <<PROFILE_DETAILS>> >>, <<"i">>) >>) }

Bodies == SeqsUpTo(Blocks, MaxBlocks)

Docs == {h @@ [body |-> b] : h \in Heads, b \in Bodies}

\* The pages the main loop is served.
MainDocs == {h @@ [body |-> <<>>] : h \in {NoHead, FullHead, FallbackHead}}

EmptyDoc == NoHead @@ [body |-> <<>>]

LOGIN_PAGE == <<"/","l","o","g","i","n",".","j","s","p">>

\* What session.get(url) can bring.  kind says what the server did; the
\* code sees raises, url, text and (through BeautifulSoup) doc.  text stands
\* for response.text as far as line 63 reads it.
Responses(url) ==
    { [kind |-> "error", raises |-> TRUE, url |-> url, text |-> <<>>, doc |-> EmptyDoc],
      [kind |-> "authwall", raises |-> FALSE, url |-> JIRA_SERVER \o LOGIN_PAGE,
       text |-> <<>>, doc |-> EmptyDoc],
      [kind |-> "authwall", raises |-> FALSE, url |-> url,
       text |-> LOGIN_TEXT, doc |-> EmptyDoc] }
    \cup { [kind |-> "profile", raises |-> FALSE, url |-> url, text |-> <<>>, doc |-> d]
           : d \in MainDocs }

----------------------------------------------------------------------------
(* main *)

NoResponse == [kind |-> "none"]

\* Lines 213-228: the ids have been read, all_users is empty.
Init ==
    /\ JIRA_SERVER \in Servers
    /\ user_ids \in SeqsUpTo(UserIds, MaxUsers)
    /\ i = 1
    /\ pc = IF user_ids = <<>> THEN "save" ELSE "fetch"
    /\ response = NoResponse
    /\ user_data = None
    /\ all_users = <<>>
    /\ output = None
    /\ attempts = <<>>
    /\ downloads = <<>>

\* Lines 236-238: where main goes with the fetched user_data.
AfterFetch(ud) ==
    IF Truthy(ud)
    THEN (IF "avatar_url" \in DOMAIN ud THEN "avatar" ELSE "append")
    ELSE "delay"

\* Line 234.
FetchProfile ==
    /\ pc = "fetch"
    /\ \E resp \in Responses(ProfileUrl(user_ids[i])) :
          /\ response' = resp
          /\ user_data' = fetch_user_profile(resp, user_ids[i])
          /\ attempts' = Append(attempts,
                 [idx |-> i, user_id |-> user_ids[i], kind |-> resp.kind,
                  result |-> user_data'])
          /\ pc' = AfterFetch(user_data')
    /\ UNCHANGED <<JIRA_SERVER, user_ids, i, all_users, output, downloads>>

\* Lines 245-246.
SetAvatarFilename(ud, avatar_filename) ==
    IF avatar_filename # <<>> /\ avatar_filename[1] # <<>>
    THEN DictSet(ud, "avatar_filename", avatar_filename[1])
    ELSE ud

\* Lines 238-246.
DownloadAvatar ==
    /\ pc = "avatar"
    /\ \E saved \in BOOLEAN :
          /\ user_data' = SetAvatarFilename(user_data,
                 download_avatar(user_ids[i], user_data.avatar_url, saved))
          /\ downloads' = Append(downloads,
                     [idx |-> i, user_id |-> user_ids[i],
                      avatar_url |-> user_data.avatar_url, saved |-> saved])
    /\ pc' = "append"
    /\ UNCHANGED <<JIRA_SERVER, user_ids, i, response, all_users, output, attempts>>

\* Line 248.
AppendUser ==
    /\ pc = "append"
    /\ all_users' = Append(all_users, user_data)
    /\ pc' = "delay"
    /\ UNCHANGED <<JIRA_SERVER, user_ids, i, response, user_data, output,
                   attempts, downloads>>

\* Lines 251-255 and the loop's step to the next id.
NextUser ==
    /\ pc = "delay"
    /\ i' = i + 1
    /\ pc' = IF i < Len(user_ids) THEN "fetch" ELSE "save"
    /\ UNCHANGED <<JIRA_SERVER, user_ids, response, user_data, all_users, output,
                   attempts, downloads>>

\* Lines 258-259.
SaveOutput ==
    /\ pc = "save"
    /\ output' = all_users
    /\ pc' = "done"
    /\ UNCHANGED <<JIRA_SERVER, user_ids, i, response, user_data, all_users,
                   attempts, downloads>>

Next == FetchProfile \/ DownloadAvatar \/ AppendUser \/ NextUser \/ SaveOutput

Spec == Init /\ [][Next]_vars

----------------------------------------------------------------------------
(* parse_user_profile alone, on one page *)

ParseInit ==
    /\ JIRA_SERVER \in Servers
    /\ user_ids = << <<"b","o","b">> >>
    /\ i = 1
    /\ pc = "parse"
    /\ \E d \in Docs :
          response = [kind |-> "profile", raises |-> FALSE,
                      url |-> ProfileUrl(user_ids[1]), text |-> <<>>, doc |-> d]
    /\ user_data = None
    /\ all_users = <<>>
    /\ output = None
    /\ attempts = <<>>
    /\ downloads = <<>>

\* Line 67.
ParseProfile ==
    /\ pc = "parse"
    /\ user_data' = parse_user_profile(response.doc, user_ids[i], response.url)
    /\ pc' = "parsed"
    /\ UNCHANGED <<JIRA_SERVER, user_ids, i, response, all_users, output,
                   attempts, downloads>>

ParseNext == ParseProfile

ParseSpec == ParseInit /\ [][ParseNext]_vars

----------------------------------------------------------------------------
(* Vocabulary of the properties of parse_user_profile (under ParseSpec).   *)
(* Each notion is stated from the page, not from the passes above.         *)

Parsed == pc = "parsed"

Page == response.doc

\* The positions in body of the elements with a tag.
BodyIdx(tag) == {b \in 1 .. Len(Page.body) : Page.body[b].tag = tag}

MinOf(S) == CHOOSE x \in S : \A y \in S : x <= y

MaxOf(S) == CHOOSE x \in S : \A y \in S : x >= y

TermKey(dt) == RStripChar(Strip(dt), ":")

\* The number of term/description pairs of a definition list.
PairCount(dl) == Min(Len(dl.dt), Len(dl.dd))

PairedKeys(dl) == {TermKey(dl.dt[k]) : k \in 1 .. PairCount(dl)}

\* Terms paired by position; of two pairs with one key the later stands.
PairMap(dl) ==
    [key \in PairedKeys(dl) |->
        Strip(dl.dd[MaxOf({k \in 1 .. PairCount(dl) : TermKey(dl.dt[k]) = key})])]

\* The key after lowercasing, spaces mapped to underscores.
Normalized(key) == [k \in 1 .. Len(key) |-> IF key[k] = " " THEN "_" ELSE LowerChar(key[k])]

RecognizedKeys ==
    { <<"u","s","e","r","n","a","m","e">>, <<"f","u","l","l","_","n","a","m","e">>,
      <<"e","m","a","i","l">>, <<"g","r","o","u","p","s">>,
      <<"l","o","g","i","n","_","c","o","u","n","t">>,
      <<"l","a","s","t","_","l","o","g","i","n">> }

Sections == user_data.sections

\* The keys of the profile_details entry when it is a mapping, else none.
ProfileDetailsKeys ==
    IF PROFILE_DETAILS \in DOMAIN Sections /\ Sections[PROFILE_DETAILS].kind = "dict"
    THEN DOMAIN Sections[PROFILE_DETAILS].val ELSE {}

\* The position in body of the profile container: the first div with the
\* panel id, else the first div with the panel class, else 0.
PanelIdx ==
    LET byId == {b \in BodyIdx("div") : Page.body[b].id = <<PANEL_ID>>}
        byClass == {b \in BodyIdx("div") : PANEL_CLASS \in Range(Page.body[b].class)}
    IN  IF byId # {} THEN MinOf(byId) ELSE IF byClass # {} THEN MinOf(byClass) ELSE 0

SubLabel(sub) == Join(sub.class[1], <<" ">>)

\* The sub-panels that contribute an entry: positions within the container.
SubIdx ==
    IF PanelIdx = 0 THEN {}
    ELSE {j \in 1 .. Len(Page.body[PanelIdx].children) :
            LET sub == Page.body[PanelIdx].children[j]
            IN  sub.class # <<>> /\ SubLabel(sub) # <<>> /\ Strip(sub.text) # <<>>}

SubLabels == {SubLabel(Page.body[PanelIdx].children[j]) : j \in SubIdx}

\* 0-based index of the table at body position b among all tables.
TableIndex(b) == Cardinality({c \in BodyIdx("table") : c < b})

TableName(n) == <<"t","a","b","l","e","_">> \o IntToStr(n)

\* The rows of a table that have cells, in order, cells trimmed.
RECURSIVE RowsWithCells(_)
RowsWithCells(tr) ==
    IF tr = <<>> THEN <<>>
    ELSE IF Head(tr) = <<>> THEN RowsWithCells(Tail(tr))
    ELSE <<[c \in 1 .. Len(Head(tr)) |-> Strip(Head(tr)[c])]>> \o RowsWithCells(Tail(tr))

----------------------------------------------------------------------------
(* Properties of parse_user_profile, checked under ParseSpec *)

\* The page has none of the markers parse_user_profile looks for.
LacksMarkers ==
    /\ Page.title = <<>>
    /\ Page.h1 = <<>>
    /\ \A k \in 1 .. Len(Page.img) :
          /\ USER_LOGO_CLASS \notin Range(Page.img[k].class)
          /\ ~(Page.img[k].alt # <<>> /\ Contains(Page.img[k].alt[1], AVATAR_WORD))
    /\ \A k \in 1 .. Len(Page.a) :
          ~(Page.a[k].href # <<>> /\ StartsWith(Page.a[k].href[1], MAILTO))
    /\ \A k \in 1 .. Len(Page.span) : USER_HOVER_CLASS \notin Range(Page.span[k].class)
    /\ BodyIdx("dl") = {}
    /\ BodyIdx("table") = {}
    /\ PanelIdx = 0

\* C4 as stated: for a page lacking every recognized marker the record
\* contains only id and profile_url.
C4_OnlyIdAndUrl ==
    (Parsed /\ LacksMarkers) => DOMAIN user_data = {"id", "profile_url"}

\* C4, amended: for a page lacking every recognized marker a record is
\* returned whose fields are exactly id and profile_url, as supplied, and
\* the two mappings details and sections, both empty.
C4_BareRecord ==
    (Parsed /\ LacksMarkers) =>
        /\ user_data # None
        /\ DOMAIN user_data = {"id", "profile_url", "details", "sections"}
        /\ user_data.id = user_ids[1]
        /\ user_data.profile_url = response.url
        /\ DOMAIN user_data.details = {}
        /\ DOMAIN user_data.sections = {}

\* A marker-free page that still has img, a, span and div elements was parsed.
C4_Witness ==
    /\ Parsed
    /\ LacksMarkers
    /\ Page.img # <<>> /\ Page.a # <<>> /\ Page.span # <<>>
    /\ BodyIdx("div") # {}

OneDlPaired ==
    /\ Cardinality(BodyIdx("dl")) = 1
    /\ \A b \in BodyIdx("dl") : Len(Page.body[b].dt) = Len(Page.body[b].dd)

TheDl == Page.body[CHOOSE b \in BodyIdx("dl") : TRUE]

\* C5 as stated: with exactly one definition list of n paired elements,
\* details and profile_details both contain exactly the keys that match the
\* recognized set after lowercasing and mapping spaces to underscores.
C5_RecognizedOnly ==
    (Parsed /\ OneDlPaired) =>
        LET M == {Normalized(k) : k \in PairedKeys(TheDl)} \cap RecognizedKeys
        IN  /\ DOMAIN user_data.details = M
            /\ ProfileDetailsKeys = M

\* The paired keys details takes: recognized, and written without "_".
CommonKeys(dl) ==
    {k \in PairedKeys(dl) : Normalized(k) \in RecognizedKeys /\ "_" \notin Range(k)}

\* C5, amended: with exactly one definition list of n paired elements,
\* details contains exactly the normalized forms of the keys that contain no
\* underscore and match the recognized set after lowercasing and mapping
\* spaces to underscores, each with the description of the last such pair;
\* profile_details (unless a sub-panel labelled profile_details replaced it)
\* holds every paired key as written, recognized or not, and is absent
\* when n = 0.
C5_DetailsAndSection ==
    (Parsed /\ OneDlPaired) =>
        LET dl == TheDl
            PairsOf(dk) == {j \in 1 .. PairCount(dl) :
                              /\ TermKey(dl.dt[j]) \in CommonKeys(dl)
                              /\ Normalized(TermKey(dl.dt[j])) = dk}
        IN  /\ DOMAIN user_data.details = {Normalized(k) : k \in CommonKeys(dl)}
            /\ \A dk \in DOMAIN user_data.details :
                  user_data.details[dk] = Strip(dl.dd[MaxOf(PairsOf(dk))])
            /\ PROFILE_DETAILS \notin SubLabels =>
                  IF PairCount(dl) = 0 THEN PROFILE_DETAILS \notin DOMAIN Sections
                  ELSE /\ PROFILE_DETAILS \in DOMAIN Sections
                       /\ Sections[PROFILE_DETAILS].kind = "dict"
                       /\ Sections[PROFILE_DETAILS].val = PairMap(dl)

\* One paired definition list was parsed that has an unrecognized key, a
\* recognized key spelled with an underscore, and two spellings of one key.
C5_Witness ==
    /\ Parsed
    /\ OneDlPaired
    /\ \E k \in PairedKeys(TheDl) : Normalized(k) \in RecognizedKeys /\ "_" \in Range(k)
    /\ \E k \in PairedKeys(TheDl) : Normalized(k) \notin RecognizedKeys
    /\ DOMAIN user_data.details # {}
    /\ Cardinality(ProfileDetailsKeys) > Cardinality(DOMAIN user_data.details)

\* C6 as stated: every table with at least one row with a cell is stored
\* under table_<i>, i its index among all tables; a table without such a row
\* produces no key; rows without cells are skipped, order kept.
C6_TablesByIndex ==
    Parsed =>
        \A b \in BodyIdx("table") :
            LET rows == RowsWithCells(Page.body[b].tr)
                key == TableName(TableIndex(b))
            IN  IF rows = <<>> THEN key \notin DOMAIN Sections
                ELSE /\ key \in DOMAIN Sections
                     /\ Sections[key].kind = "list"
                     /\ Sections[key].val = rows

\* C6, amended: the same, except where a sub-panel's class label equals
\* table_<i> (the sub-panel's text is then what the key holds); and sections
\* holds no other row list.
C6_TablesUnlessSubPanel ==
    Parsed =>
        /\ \A b \in BodyIdx("table") :
              LET rows == RowsWithCells(Page.body[b].tr)
                  key == TableName(TableIndex(b))
              IN  key \notin SubLabels =>
                      IF rows = <<>> THEN key \notin DOMAIN Sections
                      ELSE /\ key \in DOMAIN Sections
                           /\ Sections[key].kind = "list"
                           /\ Sections[key].val = rows
        /\ \A key \in DOMAIN Sections :
              Sections[key].kind = "list" =>
                  \E b \in BodyIdx("table") : key = TableName(TableIndex(b))

\* Two tables were parsed, the first without any cell, the second with a
\* row that has none: table_1 is there and table_0 is not.
C6_Witness ==
    /\ Parsed
    /\ \E b1, b2 \in BodyIdx("table") :
          /\ b1 < b2
          /\ RowsWithCells(Page.body[b1].tr) = <<>>
          /\ RowsWithCells(Page.body[b2].tr) # <<>>
          /\ Len(RowsWithCells(Page.body[b2].tr)) < Len(Page.body[b2].tr)
    /\ TableName(1) \in DOMAIN Sections
    /\ Sections[TableName(1)].kind = "list"
    /\ TableName(0) \notin DOMAIN Sections

\* The reference of the avatar image: the src of the first img with class
\* userLogo, else of the first img whose alt contains "Avatar"; empty when
\* there is none.
AvatarRef ==
    LET logos == {k \in 1 .. Len(Page.img) : USER_LOGO_CLASS \in Range(Page.img[k].class)}
        alts == {k \in 1 .. Len(Page.img) :
                    Page.img[k].alt # <<>> /\ Contains(Page.img[k].alt[1], AVATAR_WORD)}
        k == IF logos # {} THEN MinOf(logos) ELSE IF alts # {} THEN MinOf(alts) ELSE 0
    IN  IF k = 0 \/ Page.img[k].src = <<>> THEN <<>> ELSE Page.img[k].src[1]

\* The base URL up to the end of its host.
Origin ==
    LET p == FirstOf(JIRA_SERVER, {"/"})
        rest == SubSeq(JIRA_SERVER, p + 2, Len(JIRA_SERVER))
    IN  SubSeq(JIRA_SERVER, 1, p + FirstOf(rest, {"/"}))

\* C7: a reference starting with "//" becomes "https:" and the reference;
\* otherwise one starting with "/" is resolved against the base URL (the
\* host of the base, then the reference's path without dot segments; the
\* reference itself when it has none); any other reference is unchanged.
C7_AvatarUrlNormalized ==
    (Parsed /\ AvatarRef # <<>>) =>
        /\ "avatar_url" \in DOMAIN user_data
        /\ LET ref == AvatarRef
               u == user_data.avatar_url
           IN  IF StartsWith(ref, <<"/", "/">>)
               THEN u = <<"h","t","t","p","s",":">> \o ref
               ELSE IF StartsWith(ref, <<"/">>)
               THEN /\ StartsWith(u, Origin \o <<"/">>)
                    /\ ~Contains(u, <<"/", ".">>)
                    /\ ~Contains(ref, <<"/", ".">>) => u = Origin \o ref
               ELSE u = ref

\* A protocol-relative reference was normalized by the first rule.
C7_Witness ==
    /\ Parsed
    /\ StartsWith(AvatarRef, <<"/", "/">>)
    /\ "avatar_url" \in DOMAIN user_data
    /\ user_data.avatar_url = <<"h","t","t","p","s",":">> \o AvatarRef

UnequalDl == \E b \in BodyIdx("dl") : Len(Page.body[b].dt) # Len(Page.body[b].dd)

\* C8: when a definition list has unequal numbers of terms and descriptions
\* a record is still returned; profile_details, when it is a mapping, is the
\* positional pairing of one definition list up to its shorter length, and
\* every entry of details comes from term i and description i of some list
\* with i within the shorter length: unpaired terms and descriptions appear
\* in neither.
C8_PairingStopsAtShorter ==
    (Parsed /\ UnequalDl) =>
        /\ user_data # None
        /\ (PROFILE_DETAILS \in DOMAIN Sections /\ Sections[PROFILE_DETAILS].kind = "dict") =>
              \E b \in BodyIdx("dl") :
                  /\ PairCount(Page.body[b]) > 0
                  /\ Sections[PROFILE_DETAILS].val = PairMap(Page.body[b])
        /\ \A dk \in DOMAIN user_data.details :
              \E b \in BodyIdx("dl") : \E k \in 1 .. PairCount(Page.body[b]) :
                  /\ Normalized(TermKey(Page.body[b].dt[k])) = dk
                  /\ user_data.details[dk] = Strip(Page.body[b].dd[k])

\* A list with more terms than descriptions was parsed; an unpaired term
\* with a recognized key is in neither profile_details nor details.
C8_Witness ==
    /\ Parsed
    /\ \E b \in BodyIdx("dl") :
          LET dl == Page.body[b]
          IN  /\ Len(dl.dt) > Len(dl.dd) /\ Len(dl.dd) > 0
              /\ \E k \in (PairCount(dl) + 1) .. Len(dl.dt) :
                    /\ Normalized(TermKey(dl.dt[k])) \in RecognizedKeys
                    /\ Normalized(TermKey(dl.dt[k])) \notin DOMAIN user_data.details
                    /\ TermKey(dl.dt[k]) \notin ProfileDetailsKeys
    /\ ProfileDetailsKeys # {}

\* The sources of sections entries, <<pass, b, j>>: pass 1 a definition
\* list with a pair, pass 2 a table with a row of cells, pass 3 a
\* contributing sub-panel; b the element's position in body (for a sub-panel
\* the container's), j the sub-panel's position within the container.
Sources ==
    {<<1, b, 0>> : b \in {c \in BodyIdx("dl") : PairCount(Page.body[c]) > 0}}
    \cup {<<2, b, 0>> : b \in {c \in BodyIdx("table") :
                                  RowsWithCells(Page.body[c].tr) # <<>>}}
    \cup {<<3, PanelIdx, j>> : j \in SubIdx}

KeyOf(src) ==
    IF src[1] = 1 THEN PROFILE_DETAILS
    ELSE IF src[1] = 2 THEN TableName(TableIndex(src[2]))
    ELSE SubLabel(Page.body[src[2]].children[src[3]])

\* The entry is what the source contributes.
IsEntryOf(src, entry) ==
    IF src[1] = 1
    THEN entry.kind = "dict" /\ entry.val = PairMap(Page.body[src[2]])
    ELSE IF src[1] = 2
    THEN entry.kind = "list" /\ entry.val = RowsWithCells(Page.body[src[2]].tr)
    ELSE entry.kind = "str"
         /\ entry.val = Strip(Page.body[src[2]].children[src[3]].text)

\* s is not later than t in the document.
DocOrderLE(s, t) == s[2] < t[2] \/ (s[2] = t[2] /\ s[3] <= t[3])

\* s is not later than t in processing: definition lists, then tables, then
\* sub-panels, each in document order.
PassOrderLE(s, t) == s[1] < t[1] \/ (s[1] = t[1] /\ DocOrderLE(s, t))

SourcesOf(key) == {s \in Sources : KeyOf(s) = key}

\* C9 as stated: sections has one entry per key, and of the sources of a
\* key the one latest in document order is the one that remains.
C9_LastInDocument ==
    Parsed =>
        /\ DOMAIN Sections = {KeyOf(s) : s \in Sources}
        /\ \A key \in DOMAIN Sections :
              \E w \in SourcesOf(key) :
                  /\ \A t \in SourcesOf(key) : DocOrderLE(t, w)
                  /\ IsEntryOf(w, Sections[key])

\* C9, amended: sections has one entry per key, and of the sources of a key
\* the one processed last remains, the order of processing being: the
\* definition lists, then the tables, then the sub-panels, each in document
\* order.
C9_LastProcessed ==
    Parsed =>
        /\ DOMAIN Sections = {KeyOf(s) : s \in Sources}
        /\ \A key \in DOMAIN Sections :
              \E w \in SourcesOf(key) :
                  /\ \A t \in SourcesOf(key) : PassOrderLE(t, w)
                  /\ IsEntryOf(w, Sections[key])

\* Two sources collided, the sub-panel earlier in the document than the
\* definition list or table, and the sub-panel's text is what remains.
C9_Witness ==
    /\ Parsed
    /\ \E s, t \in Sources :
          /\ KeyOf(s) = KeyOf(t)
          /\ s[1] < t[1]
          /\ s[2] > t[2]
          /\ IsEntryOf(t, Sections[KeyOf(t)])

ManyDls == Cardinality(BodyIdx("dl")) >= 2

LastDl == Page.body[MaxOf(BodyIdx("dl"))]

\* C10 as stated (no sub-panel being labelled profile_details): with
\* several definition lists, profile_details reflects the last one.
C10_LastDl ==
    (Parsed /\ ManyDls /\ PROFILE_DETAILS \notin SubLabels) =>
        /\ ProfileDetailsKeys = PairedKeys(LastDl)
        /\ PairedKeys(LastDl) # {} => Sections[PROFILE_DETAILS].val = PairMap(LastDl)

\* C10, amended (no sub-panel being labelled profile_details): with
\* several definition lists, profile_details is the mapping of the last one
\* that yields at least one pair, and is absent when none does.
C10_LastDlWithPairs ==
    (Parsed /\ ManyDls /\ PROFILE_DETAILS \notin SubLabels) =>
        LET withPairs == {b \in BodyIdx("dl") : PairCount(Page.body[b]) > 0}
        IN  IF withPairs = {} THEN PROFILE_DETAILS \notin DOMAIN Sections
            ELSE /\ PROFILE_DETAILS \in DOMAIN Sections
                 /\ Sections[PROFILE_DETAILS].kind = "dict"
                 /\ Sections[PROFILE_DETAILS].val = PairMap(Page.body[MaxOf(withPairs)])

\* Two definition lists were parsed, the last without any pair, and
\* profile_details holds the first one's mapping.
C10_Witness ==
    /\ Parsed
    /\ ManyDls
    /\ PROFILE_DETAILS \notin SubLabels
    /\ PairCount(LastDl) = 0
    /\ ProfileDetailsKeys # {}

----------------------------------------------------------------------------
(* Properties of main, checked under Spec *)

\* The attempts that returned a record, in order.
Successes == SelectSeq(attempts, LAMBDA a : a.result # None)

\* The server answered attempt a with the profile page: no request error,
\* no authentication wall.
FetchedSuccessfully(a) == a.kind = "profile"

\* C1: when main finishes, all_users (and the file written) holds one record
\* for each entry of the input list whose profile page was fetched
\* successfully, in input order, and no other record.
C1_OneRecordPerFetchedUser ==
    pc = "done" =>
        LET fetched == SelectSeq(attempts, FetchedSuccessfully)
        IN  /\ Len(attempts) = Len(user_ids)
            /\ Len(all_users) = Len(fetched)
            /\ \A k \in 1 .. Len(all_users) : all_users[k].id = fetched[k].user_id
            /\ output = all_users

\* C2: the k-th attempt is for the k-th id (each id attempted once, none
\* retried), an attempt yields no record exactly when its fetch raised an
\* error or was answered by a login redirect / authentication wall, and when
\* main finishes every id has been attempted.
C2_NoRecordExactlyOnFailure ==
    /\ \A k \in 1 .. Len(attempts) :
          /\ attempts[k].idx = k
          /\ attempts[k].user_id = user_ids[k]
          /\ (attempts[k].result = None) <=> (attempts[k].kind \in {"error", "authwall"})
    /\ pc = "done" => Len(attempts) = Len(user_ids)

\* C3: every avatar download was requested for a record that
\* parse_user_profile had returned with that avatar_url; a stored record has
\* avatar_filename only if a download for that same list entry succeeded, and
\* is then the returned record plus that one field; a record without
\* avatar_url, or whose download failed, is stored as it was returned.
C3_FilenameOnlyAfterDownload ==
    /\ Len(all_users) <= Len(Successes)
    /\ \A d \in 1 .. Len(downloads) :
          \E a \in 1 .. Len(attempts) :
              /\ attempts[a].idx = downloads[d].idx
              /\ attempts[a].user_id = downloads[d].user_id
              /\ "avatar_url" \in DOMAIN attempts[a].result
              /\ attempts[a].result.avatar_url = downloads[d].avatar_url
    /\ \A r \in 1 .. Len(all_users) :
          LET rec == all_users[r]
              att == Successes[r]
              saved == \E d \in 1 .. Len(downloads) :
                          downloads[d].idx = att.idx /\ downloads[d].saved
          IN  IF "avatar_url" \in DOMAIN att.result /\ saved
              THEN /\ DOMAIN rec \subseteq DOMAIN att.result \cup {"avatar_filename"}
                   /\ \A f \in DOMAIN att.result : rec[f] = att.result[f]
              ELSE rec = att.result /\ "avatar_filename" \notin DOMAIN rec

\* main finished with one record whose avatar was saved and one whose
\* download failed.
C3_Witness ==
    /\ pc = "done"
    /\ \E r1, r2 \in 1 .. Len(all_users) :
          /\ "avatar_filename" \in DOMAIN all_users[r1]
          /\ "avatar_url" \in DOMAIN all_users[r2]
          /\ "avatar_filename" \notin DOMAIN all_users[r2]

====
